---------------------------- MODULE Spec2Model ----------------------------
(***************************************************************************)
(* A model of behavior_python/core/session.py: the Session orchestrator    *)
(* (save_to_db, overall_session_no, get_latest_trial_count, isSaved,       *)
(* read_combine_logs) and the SessionMeta derivation (init_from_prot,      *)
(* init_from_dict, set_date, generate_session_id).                         *)
(*                                                                         *)
(* The database interface (dbinterface.DataBaseInterface), the log readers *)
(* and the protocol-file parser are collaborators whose code is not part   *)
(* of session.py; they are modelled from their documented interface.       *)
(***************************************************************************)
EXTENDS Integers, Sequences, FiniteSets, TLC

(***************************************************************************)
(* Bounds of the model.                                                    *)
(***************************************************************************)
\* largest number of rows the sessions table is let grow to
MaxRows == 3
\* largest value the animals' session counter is let grow to
MaxNo == 2

(***************************************************************************)
(* The universe of the database part.                                      *)
(***************************************************************************)
Sessions == {"s1", "s2"}
SessionIds == {"A", "B"}
Animals == {"m1", "m2"}
Vals == {1, 2}
\* a row of the sessions table, and a db_dict payload: the key column and
\* one value column
Rows == [sessionId : SessionIds, val : Vals]
\* nSessions of an animal that has no row in the animals table
NoEntry == -1
\* the paths isSaved may be asked about
Paths == {"f1", "f2", "f3"}

VARIABLES
    sessions,            \* the sessions table: a sequence of rows
    animals,             \* the animals table: animal id -> nSessions, or NoEntry
    trials,              \* the trials table: animal id -> sequence of total_trial_no
    meta,                \* Session.meta of each Session object: session_id, animalid
    current_session_no,  \* Session.current_session_no of each Session object
    savePathExists,      \* os.path.exists(data_paths.savePath)
    files,               \* the paths that exist on disk
    dataPaths,           \* data_paths.dataPaths: the expected data files, in order
    lastCall,            \* the last operation run, with its arguments and outcome
    readers,             \* which log files each reader parses, and which it raises on
    rcl,                 \* the last read_combine_logs call: arguments and outcome
    sm,                  \* the last SessionMeta construction: arguments and outcome
    rd,                  \* the Session that read_data runs on: its run paths,
                         \* and rawdata and comments once they are set
    saving               \* the save_to_db invocations under way, statement by
                         \* statement: where each one is and what its check gave

dbVars == <<sessions, animals, trials, meta, current_session_no>>
fsVars == <<savePathExists, files, dataPaths>>
logVars == <<readers, rcl, sm, rd, saving>>
vars == <<sessions, animals, trials, meta, current_session_no,
          savePathExists, files, dataPaths, lastCall, readers, rcl, sm, rd,
          saving>>

(***************************************************************************)
(* The database interface: exists, add_entry, update_entry, get_entries.   *)
(***************************************************************************)
\* exists({"sessionId": sid}, "sessions")
exists(sid, table) == \E i \in 1..Len(table) : table[i].sessionId = sid

\* add_entry(row, "sessions"): one more row, whatever the table holds
add_entry(row, table) == Append(table, row)

\* update_entry({"sessionId": sid}, patch, "sessions"): every row the filter
\* matches takes the patch's values; no row is added or removed
update_entry(sid, patch, table) ==
    [i \in 1..Len(table) |->
        IF table[i].sessionId = sid
        THEN [sessionId |-> patch.sessionId, val |-> patch.val]
        ELSE table[i]]

\* update_entry({"id": animal}, {"nSessions": n}, "animals"): the animal's
\* row takes the value; without a row the filter matches nothing
update_animal(animal, n, table) ==
    IF table[animal] = NoEntry THEN table ELSE [table EXCEPT ![animal] = n]

\* get_entries({"id": animal}, "animals"): the rows of the animal
get_entries(animal, table) ==
    IF table[animal] = NoEntry THEN << >> ELSE << [nSessions |-> table[animal]] >>

\* the number of rows of the sessions table with this sessionId
RowCount(sid, table) == Cardinality({i \in 1..Len(table) : table[i].sessionId = sid})

(***************************************************************************)
(* Session.overall_session_no                                              *)
(***************************************************************************)
\* an overall_session_no that hands back the stored counter as it is
overall_session_no_stored(s) ==
    LET mouse_entry == get_entries(meta[s].animalid, animals)
    IN  IF Len(mouse_entry) > 0 THEN mouse_entry[1].nSessions ELSE 0

overall_session_no(s) ==
    LET mouse_entry == get_entries(meta[s].animalid, animals)
        last_session_no == IF Len(mouse_entry) > 0
                           THEN mouse_entry[1].nSessions
                           ELSE 0
    IN  last_session_no + 1

\* the record of an operation: which one, on which Session object, with what
\* payload, the branch save_to_db took, the rows the table held for the
\* caller's session_id before the call, the value returned, the entries the
\* call wrote to the session log, whether it raised, and, when the operation
\* that ran before it was a save_to_db, that call's session_id, payload and
\* row count
NoPayload == [sessionId |-> "-", val |-> 0]
NoSummary == [op |-> "other", sid |-> "-", payload |-> NoPayload, pre |-> 0]

Summary(c) ==
    IF c.op = "save_to_db"
    THEN [op |-> c.op, sid |-> meta[c.s].session_id, payload |-> c.payload,
          pre |-> c.pre]
    ELSE NoSummary

Call(op, s, payload, branch, pre, ret, log, raised) ==
    [op |-> op, s |-> s, payload |-> payload, branch |-> branch,
     pre |-> pre, ret |-> ret, log |-> log, raised |-> raised,
     prev |-> Summary(lastCall)]

NoCall ==
    [op |-> "none", s |-> "-", payload |-> NoPayload, branch |-> "-",
     pre |-> 0, ret |-> 0, log |-> << >>, raised |-> FALSE,
     prev |-> NoSummary]

\* the caller stores overall_session_no() as the number of the session being
\* processed; the tables are only read
AssignSessionNo(s) ==
    /\ overall_session_no(s) <= MaxNo
    /\ current_session_no' = [current_session_no EXCEPT ![s] = overall_session_no(s)]
    /\ lastCall' = Call("overall_session_no", s, NoPayload, "-", 0,
                        overall_session_no(s), << >>, FALSE)
    /\ UNCHANGED <<sessions, animals, trials, meta, fsVars, logVars>>

(***************************************************************************)
(* Session.save_to_db                                                      *)
(***************************************************************************)
\* the insert branch: add_entry, then the animal's counter is set to the
\* Session's current_session_no
save_to_db_insert(s, db_dict) ==
    /\ sessions' = add_entry(db_dict, sessions)
    /\ animals' = update_animal(meta[s].animalid, current_session_no[s], animals)

\* an update branch that leaves the stored row as it is
save_to_db_update_keep(s, db_dict) ==
    /\ sessions' = sessions
    /\ animals' = animals

\* an update branch that also writes the animal's counter
save_to_db_update_counts(s, db_dict) ==
    /\ sessions' = update_entry(meta[s].session_id, db_dict, sessions)
    /\ animals' = update_animal(meta[s].animalid, current_session_no[s] + 1, animals)

\* the update branch: the rows of the session_id take the payload
save_to_db_update(s, db_dict) ==
    /\ sessions' = update_entry(meta[s].session_id, db_dict, sessions)
    /\ animals' = animals

\* save_to_db without the existence check: every call inserts
save_to_db_no_check(s, db_dict) ==
    /\ Len(sessions) < MaxRows
    /\ save_to_db_insert(s, db_dict)
    /\ lastCall' = Call("save_to_db", s, db_dict, "insert",
                        RowCount(meta[s].session_id, sessions), 0, << >>, FALSE)
    /\ UNCHANGED <<trials, meta, current_session_no, fsVars, logVars>>

save_to_db(s, db_dict) ==
    /\ IF ~exists(meta[s].session_id, sessions)
       THEN /\ Len(sessions) < MaxRows
            /\ save_to_db_insert(s, db_dict)
            /\ lastCall' = Call("save_to_db", s, db_dict, "insert",
                                RowCount(meta[s].session_id, sessions), 0, << >>, FALSE)
       ELSE /\ save_to_db_update(s, db_dict)
            /\ lastCall' = Call("save_to_db", s, db_dict, "update",
                                RowCount(meta[s].session_id, sessions), 0, << >>, FALSE)
    /\ UNCHANGED <<trials, meta, current_session_no, fsVars, logVars>>

(***************************************************************************)
(* Session.save_to_db, statement by statement: the exists query of lines   *)
(* 319-321 and the writes of lines 322-331 are separate calls to the       *)
(* database interface, and another Session's calls may come between them.  *)
(***************************************************************************)
\* no invocation has started
NoSaving ==
    [inv |-> [s \in Sessions |->
                [pc |-> "idle", found |-> FALSE, pre |-> 0, db_dict |-> NoPayload,
                 branch |-> "-"]],
     overlapped |-> FALSE,
     animal_writes |-> 0]

\* an insert branch that is taken on what the table holds at the write
insert_branch_at_write(s) == ~exists(meta[s].session_id, sessions)

\* lines 319-322: the branch is the one the exists query chose, whatever the
\* table holds by now
insert_branch(s) == ~saving.inv[s].found

\* lines 319-321: the exists query of an invocation
SaveCheck(s, db_dict) ==
    /\ saving.inv[s].pc = "idle"
    /\ saving' =
          [saving EXCEPT
             !.inv[s] = [pc |-> "checked",
                         found |-> exists(meta[s].session_id, sessions),
                         pre |-> RowCount(meta[s].session_id, sessions),
                         db_dict |-> db_dict,
                         branch |-> "-"],
             !.overlapped = @ \/ \E t \in Sessions \ {s} : saving.inv[t].pc = "checked"]
    /\ UNCHANGED <<dbVars, fsVars, lastCall, readers, rcl, sm, rd>>

\* lines 322-331: the writes of the branch
SaveWrite(s) ==
    /\ saving.inv[s].pc = "checked"
    /\ IF insert_branch(s)
       THEN /\ save_to_db_insert(s, saving.inv[s].db_dict)
            /\ saving' = [saving EXCEPT !.inv[s].pc = "done",
                                        !.inv[s].branch = "insert",
                                        !.animal_writes = @ + 1]
       ELSE /\ save_to_db_update(s, saving.inv[s].db_dict)
            /\ saving' = [saving EXCEPT !.inv[s].pc = "done",
                                        !.inv[s].branch = "update"]
    /\ UNCHANGED <<trials, meta, current_session_no, fsVars, lastCall,
                   readers, rcl, sm, rd>>

(***************************************************************************)
(* Session.get_latest_trial_count                                          *)
(***************************************************************************)
\* get_entries({"id": animal}, "trials") runs ahead of the try: when the
\* query raises (query_ok is false) so does the call; inside the try,
\* int(prev_trials["total_trial_no"].iloc[-1]), and 0 when that raises (no row)
get_latest_trial_count(s, query_ok) ==
    LET prev_trials == trials[meta[s].animalid]
    IN  IF ~query_ok
        THEN [raised |-> TRUE, ret |-> 0]
        ELSE [raised |-> FALSE,
              ret |-> IF Len(prev_trials) > 0 THEN prev_trials[Len(prev_trials)] ELSE 0]

GetLatestTrialCount(s, query_ok) ==
    /\ lastCall' = Call("get_latest_trial_count", s, NoPayload,
                        IF query_ok THEN "-" ELSE "query failed", 0,
                        get_latest_trial_count(s, query_ok).ret, << >>,
                        get_latest_trial_count(s, query_ok).raised)
    /\ UNCHANGED <<dbVars, fsVars, logVars>>

(***************************************************************************)
(* Session.isSaved                                                         *)
(***************************************************************************)
\* os.path.exists(r)
path_exists(r) == r \in files

\* the entry isSaved logs for one expected file
LogFound(r) == <<"Found saved data", r>>
LogAbsent == <<"savePath exists but no data file is present">>

\* the loop over data_paths.dataPaths: loadable and the entries logged
RECURSIVE isSaved_loop(_, _, _)
isSaved_loop(rs, loadable, log) ==
    IF rs = << >>
    THEN [ret |-> loadable, log |-> log]
    ELSE LET r == Head(rs)
             tmp_loadable == path_exists(r)
         IN  isSaved_loop(Tail(rs), loadable /\ tmp_loadable,
                          Append(log, IF tmp_loadable THEN LogFound(r) ELSE LogAbsent))

\* the loop with the conjunction dropped: the last file decides
RECURSIVE isSaved_loop_last(_, _, _)
isSaved_loop_last(rs, loadable, log) ==
    IF rs = << >>
    THEN [ret |-> loadable, log |-> log]
    ELSE isSaved_loop_last(Tail(rs), path_exists(Head(rs)), log)

isSaved_last ==
    IF savePathExists
    THEN isSaved_loop_last(dataPaths, TRUE, << >>)
    ELSE [ret |-> FALSE, log |-> << >>]

isSaved ==
    IF savePathExists
    THEN isSaved_loop(dataPaths, TRUE, << >>)
    ELSE [ret |-> FALSE, log |-> << >>]

IsSaved(s) ==
    /\ lastCall' = Call("isSaved", s, NoPayload, "-", 0, isSaved.ret, isSaved.log, FALSE)
    /\ UNCHANGED <<dbVars, fsVars, logVars>>

\* Session.init_data_paths: the save folder is made when it does not exist
init_data_paths ==
    /\ ~savePathExists
    /\ savePathExists' = TRUE
    /\ lastCall' = Call("init_data_paths", "-", NoPayload, "-", 0, 0, << >>, FALSE)
    /\ UNCHANGED <<dbVars, files, dataPaths, logVars>>

\* SessionData.save_data: the data file is written
save_data(r) ==
    /\ savePathExists
    /\ r \notin files
    /\ files' = files \cup {r}
    /\ lastCall' = Call("save_data", "-", NoPayload, "-", 0, 0, << >>, FALSE)
    /\ UNCHANGED <<dbVars, savePathExists, dataPaths, logVars>>

(***************************************************************************)
(* Session.read_combine_logs                                               *)
(***************************************************************************)
\* longest list of per-run log paths
MaxRuns == 2

\* the log files of the run directories
LogPaths == {"p1", "p2", "p3"}

SeqsUpTo(S, n) == UNION {[1..k -> S] : k \in 0..n}

\* an argument of read_combine_logs: a list of paths, or one path (a str)
PathList(ps) == [isList |-> TRUE, paths |-> ps]
Scalar(q) == [isList |-> FALSE, paths |-> <<q>>]
LogArgs == {PathList(ps) : ps \in SeqsUpTo(LogPaths, MaxRuns)} \cup {Scalar(q) : q \in LogPaths}

\* whether reader fn parses its argument or raises: decided by the file for
\* a path, and by the reader's handling of a list when it is handed one
parse_ok(fn, arg) ==
    IF arg.isList THEN readers.list ELSE readers[fn][arg.paths[1]]

\* what the log files hold: for each event channel the timestamps of its
\* samples, from the start of the run on, and a number of comment lines
LogTimes(q) ==
    CASE q = "p1" -> ("x" :> <<0, 2>>) @@ ("y" :> <<1, 1>>)
      [] q = "p2" -> ("y" :> <<0, 3>>) @@ ("z" :> <<2>>)
      [] OTHER    -> ("x" :> <<1>>)
LogCommentCount(q) == CASE q = "p1" -> 2 [] q = "p2" -> 1 [] OTHER -> 0
\* what a reader makes of a list of paths, when it takes one
ListTimes == ("x" :> <<0>>)
ListCommentCount == 1
TimesOf(arg) == IF arg.isList THEN ListTimes ELSE LogTimes(arg.paths[1])
CommentCountOf(arg) == IF arg.isList THEN ListCommentCount ELSE LogCommentCount(arg.paths[1])

\* what a reader returns on success: the table, a mapping from the channels
\* to their (timestamp, value) samples, and the comments, in file order
parsed_data(fn, arg) ==
    [ch \in DOMAIN TimesOf(arg) |->
        [n \in 1..Len(TimesOf(arg)[ch]) |->
            [t |-> TimesOf(arg)[ch][n], v |-> <<fn, arg, ch, n>>]]]
parsed_comments(fn, arg) == [n \in 1..CommentCountOf(arg) |-> <<fn, arg, n>>]

\* one call of a reader, as it shows in the trace of calls
ReaderCall(fn, arg, role) == [fn |-> fn, arg |-> arg, role |-> role, ok |-> parse_ok(fn, arg)]

\* a fallback that turns a double failure into empty data
parse_stimlog_swallow(arg) ==
    LET first == ReaderCall("parseStimpyLog", arg, "stim")
        second == ReaderCall("parseStimpyGithubLog", arg, "stim")
    IN  IF first.ok
        THEN [ok |-> TRUE, data |-> parsed_data("parseStimpyLog", arg),
              comments |-> parsed_comments("parseStimpyLog", arg), calls |-> <<first>>]
        ELSE IF second.ok
        THEN [ok |-> TRUE, data |-> parsed_data("parseStimpyGithubLog", arg),
              comments |-> parsed_comments("parseStimpyGithubLog", arg),
              calls |-> <<first, second>>]
        ELSE [ok |-> TRUE, data |-> << >>, comments |-> << >>, calls |-> <<first, second>>]

\* try: parseStimpyLog(s_log)  except: parseStimpyGithubLog(s_log)
parse_stimlog(arg) ==
    LET first == ReaderCall("parseStimpyLog", arg, "stim")
        second == ReaderCall("parseStimpyGithubLog", arg, "stim")
    IN  IF first.ok
        THEN [ok |-> TRUE, data |-> parsed_data("parseStimpyLog", arg),
              comments |-> parsed_comments("parseStimpyLog", arg), calls |-> <<first>>]
        ELSE IF second.ok
        THEN [ok |-> TRUE, data |-> parsed_data("parseStimpyGithubLog", arg),
              comments |-> parsed_comments("parseStimpyGithubLog", arg),
              calls |-> <<first, second>>]
        ELSE [ok |-> FALSE, data |-> << >>, comments |-> << >>, calls |-> <<first, second>>]

\* parseStimpyLog(riglog)
parse_riglog(arg) ==
    LET only == ReaderCall("parseStimpyLog", arg, "rig")
    IN  [ok |-> only.ok,
         data |-> IF only.ok THEN parsed_data("parseStimpyLog", arg) ELSE << >>,
         comments |-> IF only.ok THEN parsed_comments("parseStimpyLog", arg) ELSE << >>,
         calls |-> <<only>>]

\* the duration of a run for a channel: the time of the channel's last
\* sample, the run's clock starting at 0
Duration(run, ch) ==
    IF ch \in DOMAIN run /\ Len(run[ch]) > 0 THEN run[ch][Len(run[ch])].t ELSE 0
\* the samples with their timestamps moved by offset
Shift(samples, offset) ==
    [n \in 1..Len(samples) |-> [t |-> samples[n].t + offset, v |-> samples[n].v]]
\* one channel of runs k.. of data_all, the runs before k lasting offset
RECURSIVE stitch_channel(_, _, _, _)
stitch_channel(data_all, ch, k, offset) ==
    IF k > Len(data_all) THEN << >>
    ELSE (IF ch \in DOMAIN data_all[k] THEN Shift(data_all[k][ch], offset) ELSE << >>)
           \o stitch_channel(data_all, ch, k + 1, offset + Duration(data_all[k], ch))
\* stitchLogs(data_all, isStimlog): every channel of any run, its samples
\* in run order, each run shifted by the duration of the runs before it
stitchLogs(data_all, isStimlog) ==
    [ch \in UNION {DOMAIN data_all[k] : k \in 1..Len(data_all)} |->
        stitch_channel(data_all, ch, 1, 0)]

\* a merge in which the stimlog's entry stands
dict_merge_stim_over(stim_data, rig_data) ==
    [ch \in (DOMAIN stim_data) \cup (DOMAIN rig_data) |->
        IF ch \in DOMAIN stim_data THEN stim_data[ch] ELSE rig_data[ch]]

\* {**stim_data, **rig_data}
dict_merge(stim_data, rig_data) ==
    [ch \in (DOMAIN stim_data) \cup (DOMAIN rig_data) |->
        IF ch \in DOMAIN rig_data THEN rig_data[ch] ELSE stim_data[ch]]

\* the outcome of a call: raised with an error and nothing returned, or the
\* pair (rawdata, comments); calls is the trace of reader calls made, and
\* stim_data and rig_data are the two tables as they stand at the merge
Raised(err, calls) ==
    [raised |-> TRUE, err |-> err, calls |-> calls, rawdata |-> << >>, comments |-> << >>,
     returned |-> FALSE, stim_data |-> << >>, rig_data |-> << >>]
Returned_rig_first(stim_data, rig_data, stim_comments, rig_comments, calls) ==
    [raised |-> FALSE, err |-> "-", calls |-> calls,
     rawdata |-> dict_merge(stim_data, rig_data),
     comments |-> rig_comments \o stim_comments,
     returned |-> TRUE, stim_data |-> stim_data, rig_data |-> rig_data]
Returned(stim_data, rig_data, stim_comments, rig_comments, calls) ==
    [raised |-> FALSE, err |-> "-", calls |-> calls,
     rawdata |-> dict_merge(stim_data, rig_data),
     comments |-> stim_comments \o rig_comments,
     returned |-> TRUE, stim_data |-> stim_data, rig_data |-> rig_data]

\* a list of the runs that grows at its front
append_run_front(data_all, temp_log) == <<temp_log>> \o data_all
\* stim_data_all.append(temp_slog), rig_data_all.append(temp_rlog)
append_run(data_all, temp_log) == Append(data_all, temp_log)

\* the loop over enumerate(stimlog_paths), from run i on
RECURSIVE rcl_loop(_, _, _, _, _, _, _, _)
rcl_loop(stimlog_paths, riglog_paths, i, stim_data_all, rig_data_all, stim_comments, rig_comments, calls) ==
    IF i > Len(stimlog_paths)
    THEN Returned(stitchLogs(stim_data_all, TRUE), stitchLogs(rig_data_all, FALSE),
                  stim_comments, rig_comments, calls)
    ELSE LET s == parse_stimlog(Scalar(stimlog_paths[i]))
         IN  IF ~s.ok
             THEN Raised("ParseError", calls \o s.calls)
             ELSE IF i > Len(riglog_paths)
             THEN Raised("IndexError", calls \o s.calls)
             ELSE LET r == parse_riglog(Scalar(riglog_paths[i]))
                  IN  IF ~r.ok
                      THEN Raised("ParseError", calls \o s.calls \o r.calls)
                      ELSE rcl_loop(stimlog_paths, riglog_paths, i + 1,
                                    append_run(stim_data_all, s.data),
                                    append_run(rig_data_all, r.data),
                                    stim_comments \o s.comments,
                                    rig_comments \o r.comments,
                                    calls \o s.calls \o r.calls)

\* the else branch: each argument goes to the readers as it is
rcl_single(stimlog_paths, riglog_paths) ==
    LET s == parse_stimlog(stimlog_paths)
    IN  IF ~s.ok
        THEN Raised("ParseError", s.calls)
        ELSE LET r == parse_riglog(riglog_paths)
             IN  IF ~r.ok
                 THEN Raised("ParseError", s.calls \o r.calls)
                 ELSE Returned(s.data, r.data, s.comments, r.comments,
                               s.calls \o r.calls)

\* read_combine_logs with the assert statement stripped
read_combine_logs_no_assert(stimlog_paths, riglog_paths) ==
    IF stimlog_paths.isList /\ riglog_paths.isList
    THEN rcl_loop(stimlog_paths.paths, riglog_paths.paths, 1,
                  << >>, << >>, << >>, << >>, << >>)
    ELSE rcl_single(stimlog_paths, riglog_paths)

\* read_combine_logs taking the list branch when either argument is a list
read_combine_logs_any_list(stimlog_paths, riglog_paths) ==
    IF stimlog_paths.isList \/ riglog_paths.isList
    THEN IF Len(stimlog_paths.paths) # Len(riglog_paths.paths)
         THEN Raised("AssertionError", << >>)
         ELSE rcl_loop(stimlog_paths.paths, riglog_paths.paths, 1,
                       << >>, << >>, << >>, << >>, << >>)
    ELSE rcl_single(stimlog_paths, riglog_paths)

read_combine_logs(stimlog_paths, riglog_paths) ==
    IF stimlog_paths.isList /\ riglog_paths.isList
    THEN IF Len(stimlog_paths.paths) # Len(riglog_paths.paths)
         THEN Raised("AssertionError", << >>)
         ELSE rcl_loop(stimlog_paths.paths, riglog_paths.paths, 1,
                       << >>, << >>, << >>, << >>, << >>)
    ELSE rcl_single(stimlog_paths, riglog_paths)

NoRcl == [called |-> FALSE, stimlog_paths |-> PathList(<< >>),
          riglog_paths |-> PathList(<< >>), out |-> Raised("-", << >>)]

\* one call on the files as they are; the function keeps no state, so a
\* second call on the same files would repeat the first
ReadCombineLogs(stimlog_paths, riglog_paths) ==
    /\ ~rcl.called
    /\ rcl' = [called |-> TRUE, stimlog_paths |-> stimlog_paths,
               riglog_paths |-> riglog_paths,
               out |-> read_combine_logs(stimlog_paths, riglog_paths)]
    /\ UNCHANGED <<dbVars, fsVars, lastCall, readers, sm, rd, saving>>

(***************************************************************************)
(* Session.read_data                                                       *)
(***************************************************************************)
\* extrapolate_time(rawdata): the table with the timestamps filled in
extrapolate_time(rawdata) == [extrapolated |-> TRUE, table |-> rawdata]

\* parseVStimLog(data_paths.log): the pair the pyvstim reader returns
parseVStimLog == [rawdata |-> [vstim |-> TRUE], comments |-> << <<"parseVStimLog", 1>> >>]

\* the run directories a session may have: the stimlog and the riglog of a
\* run, each one file, or each a list of files
RunDirs ==
    {[stimlog |-> Scalar(p), riglog |-> Scalar(q)] : p \in LogPaths, q \in LogPaths}
        \cup {[stimlog |-> PathList(<<"p1", "p2">>), riglog |-> PathList(<<"p2", "p3">>)]}

\* rawdata and comments of a Session: whether the attributes are set, and
\* their values; raised when read_data did not return; logged when the
\* logger was told "Read rawdata"
Attrs(is_set, rawdata, comments, raised, logged) ==
    [is_set |-> is_set, rawdata |-> rawdata, comments |-> comments,
     raised |-> raised, logged |-> logged]
NoData == Attrs(FALSE, << >>, << >>, FALSE, FALSE)

\* the loop over data_paths.runPaths, lines 271-276
RECURSIVE read_data_loop(_, _, _)
read_data_loop(runPaths, rawdata, comments) ==
    IF runPaths = << >>
    THEN Attrs(TRUE, rawdata, comments, FALSE, TRUE)
    ELSE IF read_combine_logs(Head(runPaths).stimlog, Head(runPaths).riglog).raised
    THEN Attrs(TRUE, rawdata, comments, TRUE, FALSE)
    ELSE read_data_loop(
             Tail(runPaths),
             Append(rawdata, extrapolate_time(
                 read_combine_logs(Head(runPaths).stimlog, Head(runPaths).riglog).rawdata)),
             Append(comments,
                 read_combine_logs(Head(runPaths).stimlog, Head(runPaths).riglog).comments))

\* the single run, lines 279-283
read_data_single(before, stimlog, riglog) ==
    IF read_combine_logs(stimlog, riglog).raised
    THEN Attrs(before.is_set, before.rawdata, before.comments, TRUE, FALSE)
    ELSE Attrs(TRUE, <<extrapolate_time(read_combine_logs(stimlog, riglog).rawdata)>>,
               <<read_combine_logs(stimlog, riglog).comments>>, FALSE, TRUE)

\* Session.read_data: before holds the attributes as they were
read_data(before, logversion, runPaths, stimlog, riglog) ==
    IF logversion = "pyvstim"
    THEN Attrs(TRUE, parseVStimLog.rawdata, parseVStimLog.comments, FALSE, TRUE)
    ELSE IF Len(runPaths) > 1
    THEN read_data_loop(runPaths, << >>, << >>)
    ELSE IF Len(runPaths) = 1
    THEN read_data_single(before, stimlog, riglog)
    ELSE Attrs(before.is_set, before.rawdata, before.comments, FALSE, TRUE)

\* data_paths of a Session with these run directories: with one run,
\* stimlog and riglog point to the logs of that run
DataPathsOf(runPaths) ==
    [runPaths |-> runPaths,
     stimlog |-> IF Len(runPaths) > 0 THEN runPaths[1].stimlog ELSE PathList(<< >>),
     riglog |-> IF Len(runPaths) > 0 THEN runPaths[1].riglog ELSE PathList(<< >>)]

NoRd == [called |-> FALSE, logversion |-> "stimpy", data_paths |-> DataPathsOf(<< >>),
         out |-> NoData]

\* read_data() on a Session that has not read its data yet
ReadData ==
    /\ ~rd.called
    /\ rd' = [rd EXCEPT !.called = TRUE,
                        !.out = read_data(rd.out, rd.logversion, rd.data_paths.runPaths,
                                          rd.data_paths.stimlog, rd.data_paths.riglog)]
    /\ UNCHANGED <<dbVars, fsVars, lastCall, readers, rcl, sm, saving>>

(***************************************************************************)
(* SessionMeta.  A str is a sequence of one-character strings.             *)
(***************************************************************************)
DigitChars == <<"0", "1", "2", "3", "4", "5", "6", "7", "8", "9">>
IsDigit(c) == \E k \in 1..10 : DigitChars[k] = c
DigitVal(c) == (CHOOSE k \in 1..10 : DigitChars[k] = c) - 1
\* a number below 100 as two digits: strftime's %H and %M
Fmt2(n) == <<DigitChars[(n \div 10) + 1], DigitChars[(n % 10) + 1]>>

\* "".join([n for n in animalid if n.isdigit()])
RECURSIVE digits_of(_)
digits_of(str) ==
    IF str = << >> THEN << >>
    ELSE (IF IsDigit(Head(str)) THEN <<Head(str)>> ELSE << >>) \o digits_of(Tail(str))

\* an object under construction: its attributes, and the order they were set in
NoAttrs == [attrs |-> << >>, order |-> << >>]
Has(o, k) == k \in DOMAIN o.attrs
SetAttr(o, k, v) ==
    [attrs |-> [x \in (DOMAIN o.attrs) \cup {k} |-> IF x = k THEN v ELSE o.attrs[x]],
     order |-> Append(o.order, k)]

\* a step of the construction went through, or raised
Ok(o) == [ok |-> TRUE, obj |-> o, err |-> << >>]
Err(o, e) == [ok |-> FALSE, obj |-> o, err |-> e]

\* a generate_session_id that leaves the creation time out of the id
generate_session_id_no_time(o) ==
    IF Has(o, "animalid") /\ Has(o, "baredate") /\ Has(o, "time")
    THEN Ok(SetAttr(o, "session_id", o.attrs.baredate \o digits_of(o.attrs.animalid)))
    ELSE Err(o, <<"RuntimeError", "-">>)

\* SessionMeta.generate_session_id: a missing attribute raises inside the
\* try and is turned into the RuntimeError, whose message reads session_dir
generate_session_id(o) ==
    IF Has(o, "animalid") /\ Has(o, "baredate") /\ Has(o, "time")
    THEN LET mouse_part == digits_of(o.attrs.animalid)
         IN  Ok(SetAttr(o, "session_id", o.attrs.baredate \o o.attrs.time \o mouse_part))
    ELSE IF Has(o, "session_dir")
         THEN Err(o, <<"RuntimeError", o.attrs.session_dir>>)
         ELSE Err(o, <<"AttributeError", "session_dir">>)

\* datetime.strptime(str, "%y%m%d"): the pattern \d\d, then the month
\* 1[0-2]|0[1-9]|[1-9], then the day 3[01]|[12]\d|0[1-9]|[1-9], matched
\* from the left with the first alternative that lets the rest match; text
\* left over and a day the month does not have are errors
Month2(str, at) ==
    /\ at + 1 <= Len(str)
    /\ \/ str[at] = "1" /\ str[at + 1] \in {"0", "1", "2"}
       \/ str[at] = "0" /\ IsDigit(str[at + 1]) /\ str[at + 1] # "0"
Month1(str, at) == at <= Len(str) /\ IsDigit(str[at]) /\ str[at] # "0"
Day2(str, at) ==
    /\ at + 1 <= Len(str)
    /\ \/ str[at] = "3" /\ str[at + 1] \in {"0", "1"}
       \/ str[at] \in {"1", "2"} /\ IsDigit(str[at + 1])
       \/ str[at] = "0" /\ IsDigit(str[at + 1]) /\ str[at + 1] # "0"
Day1(str, at) == at <= Len(str) /\ IsDigit(str[at]) /\ str[at] # "0"
DayLen(str, at) == IF Day2(str, at) THEN 2 ELSE IF Day1(str, at) THEN 1 ELSE 0
Number(str, at, len) ==
    IF len = 2 THEN 10 * DigitVal(str[at]) + DigitVal(str[at + 1]) ELSE DigitVal(str[at])
DaysInMonth(y, m) ==
    IF m = 2 THEN (IF y % 4 = 0 THEN 29 ELSE 28)
    ELSE IF m \in {4, 6, 9, 11} THEN 30 ELSE 31

strptime(str) ==
    IF ~(Len(str) >= 2 /\ IsDigit(str[1]) /\ IsDigit(str[2]))
    THEN [ok |-> FALSE, y |-> 0, m |-> 0, d |-> 0]
    ELSE LET mlen == IF Month2(str, 3) /\ DayLen(str, 5) > 0 THEN 2
                     ELSE IF Month1(str, 3) /\ DayLen(str, 4) > 0 THEN 1
                     ELSE 0
             dlen == DayLen(str, 3 + mlen)
             y == Number(str, 1, 2)
             m == Number(str, 3, mlen)
             d == Number(str, 3 + mlen, dlen)
         IN  IF mlen = 0 \/ 2 + mlen + dlen # Len(str) \/ d > DaysInMonth(y, m)
             THEN [ok |-> FALSE, y |-> 0, m |-> 0, d |-> 0]
             ELSE [ok |-> TRUE, y |-> y, m |-> m, d |-> d]

\* minutes in an hour and in a day: the creation time is kept in minutes
MinutesPerHour == 60
MinutesPerDay == 1440
\* dt.fromtimestamp(create_epoch).strftime("%H%M")
strftime_HM(create_epoch) ==
    Fmt2((create_epoch % MinutesPerDay) \div MinutesPerHour)
        \o Fmt2(create_epoch % MinutesPerHour)

\* a choice of the epoch that falls back on the change time
create_epoch_or_ctime(prot) ==
    IF prot.platform = "darwin"
    THEN [bound |-> TRUE, v |-> prot.stat.st_birthtime]
    ELSE [bound |-> TRUE, v |-> prot.stat.st_ctime]

\* set_date, lines 100-103: create_epoch is assigned on darwin and on win32,
\* and on no other platform
create_epoch(prot) ==
    IF prot.platform = "darwin"
    THEN [bound |-> TRUE, v |-> prot.stat.st_birthtime]
    ELSE IF prot.platform = "win32"
    THEN [bound |-> TRUE, v |-> prot.stat.st_ctime]
    ELSE [bound |-> FALSE, v |-> 0]

\* set_date, line 104: time, from the epoch when one was assigned
set_time(o, prot) ==
    IF create_epoch(prot).bound
    THEN Ok(SetAttr(o, "time", strftime_HM(create_epoch(prot).v)))
    ELSE Err(o, <<"UnboundLocalError", "create_epoch">>)

\* SessionMeta.set_date
set_date(o, date_str, prot) ==
    LET o1 == SetAttr(o, "baredate", date_str)
        parsed == strptime(date_str)
    IN  IF ~parsed.ok
        THEN Err(o1, <<"ValueError", "strptime">>)
        ELSE LET o2 == SetAttr(o1, "date", [y |-> parsed.y, m |-> parsed.m, d |-> parsed.d])
                 o3 == SetAttr(o2, "nicedate", [d |-> parsed.d, m |-> parsed.m, y |-> parsed.y])
             IN  set_time(o3, prot)

\* SessionMeta.set_weight_and_water: the sheet is read unless skip_google;
\* a row gives the weight, and the water when int() takes it
set_weight_and_water(o, skip_google, gsheet) ==
    LET o1 == SetAttr(SetAttr(o, "weight", "None"), "water_consumed", "None")
    IN  IF skip_google \/ gsheet = "norow"
        THEN Ok(o1)
        ELSE IF gsheet = "unavailable"
        THEN Err(o1, <<"Exception", "GSheet">>)
        ELSE LET o2 == SetAttr(o1, "weight", 25)
             IN  Ok(SetAttr(o2, "water_consumed",
                            IF gsheet = "row" THEN 900 ELSE "None"))

\* str.find(sub): the index, from 0, of the first place sub stands at, or -1
IsAt(str, sub, i) ==
    /\ i + Len(sub) - 1 <= Len(str)
    /\ \A k \in 1..Len(sub) : str[i + k - 1] = sub[k]
RECURSIVE find_from(_, _, _)
find_from(str, sub, i) ==
    IF i + Len(sub) - 1 > Len(str) THEN -1
    ELSE IF IsAt(str, sub, i) THEN i - 1
    ELSE find_from(str, sub, i + 1)
find(str, sub) == find_from(str, sub, 1)

\* where the separator first stands in str, and 0 when it does not
RECURSIVE first_sep_from(_, _, _)
first_sep_from(str, sep, i) ==
    IF i > Len(str) THEN 0
    ELSE IF str[i] = sep THEN i
    ELSE first_sep_from(str, sep, i + 1)
FirstSep(str, sep) == first_sep_from(str, sep, 1)
\* str.split(sep), sep one character: the pieces between the separators
RECURSIVE split(_, _)
split(str, sep) ==
    LET i == FirstSep(str, sep)
    IN  IF i = 0
        THEN <<str>>
        ELSE <<SubSeq(str, 1, i - 1)>> \o split(SubSeq(str, i + 1, Len(str)), sep)
\* list[-1]
Last(list) == list[Len(list)]
\* sep.join(tokens)
RECURSIVE join(_, _)
join(tokens, sep) ==
    IF Len(tokens) = 0 THEN << >>
    ELSE IF Len(tokens) = 1 THEN tokens[1]
    ELSE tokens[1] \o <<sep>> \o join(Tail(tokens), sep)

\* os.sep, as the paths of the model are written
os_sep == "/"
\* the path of a protocol file: the directory the sessions lie in, the
\* session directory, the file
prot_file(prot) ==
    prot.place.parent \o <<os_sep>> \o join(prot.dir, "_") \o <<os_sep>> \o prot.place.file

\* lines 61-65: the characters up to the first "." or "_"
RECURSIVE level_chars(_)
level_chars(tmp) ==
    IF tmp = << >> \/ Head(tmp) \in {".", "_"} THEN << >>
    ELSE <<Head(tmp)>> \o level_chars(Tail(tmp))
LevelToken == <<"l", "e", "v", "e", "l">>
\* lines 58-68: lvl
level_of(path) ==
    LET at == find(path, LevelToken)
    IN  IF at # -1
        THEN level_chars(SubSeq(path, at + Len(LevelToken) + 1, Len(path)))
        ELSE <<"e", "x", "p">>

\* int(str) and float(str) of a string of digits
RECURSIVE int_str(_)
int_str(str) ==
    IF str = << >> THEN 0
    ELSE 10 * int_str(SubSeq(str, 1, Len(str) - 1)) + DigitVal(str[Len(str)])

\* init_from_prot, lines 46-53: the controller option.  float() takes a
\* numeric one, and "Opto" in <float> raises
set_controller(o, prot) ==
    IF prot.controller = "absent" THEN Ok(o)
    ELSE IF prot.controller = "numeric"
    THEN Err(SetAttr(o, "controller", prot.controller), <<"TypeError", "in">>)
    ELSE IF prot.controller = "Opto"
    THEN Ok(SetAttr(SetAttr(o, "controller", prot.controller), "opto", TRUE))
    ELSE Ok(SetAttr(o, "controller", prot.controller))

\* init_from_prot, lines 46-50: the optoMode option, set as the float it
\* reads as
set_optoMode(r, prot) ==
    IF ~r.ok \/ ~prot.optoMode.has THEN r
    ELSE Ok(SetAttr(r.obj, "optoMode", int_str(prot.optoMode.v)))

\* init_from_prot, lines 55-56: opto_mode, int(opts.get("optoMode", 0))
set_opto_mode(r, prot) ==
    IF ~r.ok \/ ~r.obj.attrs.opto THEN r
    ELSE Ok(SetAttr(r.obj, "opto_mode",
                    IF prot.optoMode.has THEN int_str(prot.optoMode.v) ELSE 0))

\* init_from_prot, lines 42-56: the options of the protocol file
set_options(o, prot) ==
    IF prot.parse = "raises"
    THEN Err(SetAttr(o, "opto", FALSE), <<"OSError", "parseProtocolFile">>)
    ELSE set_opto_mode(set_optoMode(set_controller(SetAttr(o, "opto", FALSE), prot),
                                    prot), prot)

\* init_from_prot, lines 58-71: level, sf_values, tf_values
set_level_and_params(o, prot) ==
    LET o1 == SetAttr(o, "level", level_of(prot_file(prot)))
    IN  IF prot.parse = "no_sf"
        THEN Err(o1, <<"KeyError", "sf">>)
        ELSE Ok(SetAttr(SetAttr(o1, "sf_values", "sf"), "tf_values", "tf"))

\* a reading of the tokens that starts one token early
set_tokens_shifted(o) ==
    LET tokens == split(o.attrs.session_dir, "_")
    IN  IF Len(tokens) < 2
        THEN Err(o, <<"IndexError", "split">>)
        ELSE Ok(SetAttr(SetAttr(o, "animalid", tokens[1]), "user", Last(tokens)))

\* init_from_prot, lines 76-77: animalid and user, the second and the last
\* token of session_dir
set_tokens(o) ==
    LET tokens == split(o.attrs.session_dir, "_")
    IN  IF Len(tokens) < 2
        THEN Err(o, <<"IndexError", "split">>)
        ELSE Ok(SetAttr(SetAttr(o, "animalid", tokens[2]), "user", Last(tokens)))

\* init_from_prot, lines 73-77: the names read off the path
set_names(o, prot) ==
    LET parts == split(prot_file(prot), os_sep)
    IN  IF Len(parts) < 2
        THEN Err(o, <<"IndexError", "split">>)
        ELSE set_tokens(SetAttr(SetAttr(o, "session_dir", parts[Len(parts) - 1]),
                                "experiment_name", split(parts[Len(parts)], ".")[1]))


\* the statements of init_from_prot after the options, each run only when
\* the one before it returned: an exception ends the construction
then_level_and_params(r, prot) ==
    IF r.ok THEN set_level_and_params(r.obj, prot) ELSE r
then_names(r, prot) == IF r.ok THEN set_names(r.obj, prot) ELSE r
\* line 78: set_date(self.session_dir.split(os.sep)[-1].split("_")[0])
then_date(r, prot) ==
    IF r.ok
    THEN set_date(r.obj, split(Last(split(r.obj.attrs.session_dir, os_sep)), "_")[1], prot)
    ELSE r
then_weight_and_water(r, skip_google, prot) ==
    IF r.ok THEN set_weight_and_water(r.obj, skip_google, prot.gsheet) ELSE r
then_session_id(r) == IF r.ok THEN generate_session_id(r.obj) ELSE r
\* lines 42-78: everything ahead of the weight and the id
before_weight(prot) ==
    then_date(then_names(then_level_and_params(set_options(NoAttrs, prot), prot),
                         prot), prot)

\* an init_from_prot that derives the id before the weight and water
init_from_prot_id_early(prot, skip_google) ==
    then_weight_and_water(then_session_id(before_weight(prot)), skip_google, prot)

\* SessionMeta.init_from_prot: the statements in their order
init_from_prot(prot, skip_google) ==
    then_session_id(then_weight_and_water(before_weight(prot), skip_google, prot))

\* SessionMeta.init_from_dict: every entry becomes an attribute
RECURSIVE copy_entries(_, _, _)
copy_entries(o, init_dict, keys) ==
    IF keys = << >> THEN o
    ELSE copy_entries(SetAttr(o, Head(keys), init_dict[Head(keys)]), init_dict, Tail(keys))

init_from_dict(init_dict) == Ok(copy_entries(NoAttrs, init_dict.entries, init_dict.keys))

\* the strings the session directories, the file times and the dictionaries
\* are made of
Dates == { <<"1", "1", "0", "1", "1", "1">>, <<"1", "1", "0", "1", "1", "0">>,
           <<"1", "1", "0", "1", "1">>, <<"1", "1", "1", "3", "0", "1">>,
           <<"2", "3", "0", "2", "2", "9">> }
AnimalIds == { <<"K", "1", "0">>, <<"M", "1", "0">>, <<"K", "0">>, <<"K", "C">> }
UserToken == <<"A", "B">>
TaskToken == <<"d", "e", "t">>
\* creation times, in minutes: 01:11 and 10:11
Epochs == {71, 611}

\* the names of the protocol files
FileNames == { <<"a", "_", "l", "e", "v", "e", "l", "3", ".", "t">>,
               <<"l", "e", "v", "e", "l", "2", "_", "b", ".", "t">>,
               <<"a", ".", "t">> }
\* where the protocol files of the model lie
Places ==
    { [parent |-> <<"d">>, file |-> f] : f \in FileNames }
        \cup { [parent |-> <<"l", "e", "v", "e", "l", "1">>, file |-> <<"a", ".", "t">>],
                [parent |-> <<"l", "e", "v", "e", "l", "1">>,
                 file |-> <<"a", "_", "l", "e", "v", "e", "l", "3", ".", "t">>] }

\* the session directory's name, split at "_"
DirNames ==
    { <<d, a, TaskToken, UserToken>> : d \in Dates, a \in AnimalIds }
        \cup { <<<<"1", "1", "0", "1", "1">>, a>> : a \in AnimalIds }
        \cup { << <<"1", "1", "0", "1", "1", "1">> >> }

\* a protocol file: where it lies, what parseProtocolFile makes of it, its
\* creation times, the platform, and what the sheet lookup does
\* an option of the protocol file: whether the file has it, and its text
NoOption == [has |-> FALSE, v |-> << >>]
Option(v) == [has |-> TRUE, v |-> v]
Options ==
    { [controller |-> "absent", optoMode |-> NoOption],
      [controller |-> "plain", optoMode |-> NoOption],
      [controller |-> "plain", optoMode |-> Option(<<"1">>)],
      [controller |-> "Opto", optoMode |-> NoOption],
      [controller |-> "Opto", optoMode |-> Option(<<"1">>)],
      [controller |-> "numeric", optoMode |-> NoOption] }
ProtFiles ==
    { [dir |-> d, place |-> pl, controller |-> op.controller, optoMode |-> op.optoMode,
       parse |-> pa, platform |-> pf, stat |-> st, gsheet |-> g] :
        d \in DirNames, pl \in Places, op \in Options,
        pa \in {"ok", "raises", "no_sf"},
        pf \in {"darwin", "win32", "linux"},
        st \in {[st_birthtime |-> 71, st_ctime |-> 611],
                [st_birthtime |-> 611, st_ctime |-> 71]},
        g \in {"unavailable", "norow", "row", "row_badwater"} }

\* the dictionaries a SessionMeta is built from: the keys they hold, in
\* their order, and the values of those keys
DictKeys ==
    { <<"animalid", "baredate", "time", "session_dir", "session_id">>,
      <<"animalid", "baredate", "time", "session_dir">>,
      <<"animalid", "baredate", "time">>,
      <<"baredate", "time", "session_dir">>,
      <<"baredate">>,
      << >> }
InitDicts ==
    { [keys |-> ks,
       entries |-> [animalid |-> a, baredate |-> d, time |-> strftime_HM(e),
                    session_dir |-> join(<<d, a>>, "_"),
                    session_id |-> d \o strftime_HM(e) \o digits_of(a)]] :
        ks \in DictKeys, a \in AnimalIds, d \in Dates, e \in Epochs }

NoMeta == [path |-> "none", ready |-> FALSE, err |-> << >>, obj |-> NoAttrs,
           gen |-> "no"]

\* SessionMeta(prot_file=..., skip_google=...)
ConstructFromProt(prot, skip_google) ==
    /\ sm.path = "none"
    /\ LET r == init_from_prot(prot, skip_google)
       IN  sm' = [path |-> "prot", ready |-> r.ok, err |-> r.err, obj |-> r.obj,
                  gen |-> "no", prot |-> prot, skip_google |-> skip_google]
    /\ UNCHANGED <<dbVars, fsVars, lastCall, readers, rcl, rd, saving>>

\* SessionMeta(init_dict=...)
ConstructFromDict(init_dict) ==
    /\ sm.path = "none"
    /\ LET r == init_from_dict(init_dict)
       IN  sm' = [path |-> "dict", ready |-> r.ok, err |-> r.err, obj |-> r.obj,
                  gen |-> "no", init_dict |-> init_dict]
    /\ UNCHANGED <<dbVars, fsVars, lastCall, readers, rcl, rd, saving>>

\* SessionMeta(): neither branch of __init__ is taken
ConstructEmpty ==
    /\ sm.path = "none"
    /\ sm' = [path |-> "empty", ready |-> TRUE, err |-> << >>, obj |-> NoAttrs,
              gen |-> "no"]
    /\ UNCHANGED <<dbVars, fsVars, lastCall, readers, rcl, rd, saving>>

\* generate_session_id() called on a SessionMeta built from a dictionary
GenerateSessionId ==
    /\ sm.path = "dict" /\ sm.ready /\ sm.gen = "no"
    /\ LET r == generate_session_id(sm.obj)
       IN  sm' = [sm EXCEPT !.obj = r.obj, !.err = r.err,
                            !.gen = IF r.ok THEN "ok" ELSE "raised"]
    /\ UNCHANGED <<dbVars, fsVars, lastCall, readers, rcl, rd, saving>>

(***************************************************************************)
(* The specification of the database operations.                           *)
(***************************************************************************)
InitDb ==
    /\ sessions \in {<< >>} \cup {<<r>> : r \in Rows}
    /\ animals \in [Animals -> {NoEntry, 0}]
    /\ trials = [a \in Animals |-> IF a = "m1" THEN <<3, 5>> ELSE << >>]
    /\ meta \in [Sessions -> [session_id : SessionIds, animalid : Animals]]
    /\ meta["s1"] = [session_id |-> "A", animalid |-> "m1"]
    /\ current_session_no = [s \in Sessions |-> overall_session_no(s)]
    /\ lastCall = NoCall

InitFsFixed ==
    /\ savePathExists = TRUE
    /\ files = {"f1"}
    /\ dataPaths = <<"f1", "f2">>

InitLogsFixed ==
    /\ readers = [parseStimpyLog |-> [q \in LogPaths |-> TRUE],
                  parseStimpyGithubLog |-> [q \in LogPaths |-> FALSE],
                  list |-> FALSE]
    /\ rcl = NoRcl
    /\ sm = NoMeta
    /\ rd = NoRd
    /\ saving = NoSaving

Init == InitDb /\ InitFsFixed /\ InitLogsFixed

Next ==
    \/ \E s \in Sessions : AssignSessionNo(s)
    \/ \E s \in Sessions, p \in Rows : save_to_db(s, p)
    \/ \E s \in Sessions, query_ok \in BOOLEAN : GetLatestTrialCount(s, query_ok)
    \/ \E s \in Sessions : IsSaved(s)

Spec == Init /\ [][Next]_vars

(***************************************************************************)
(* The specification of the save-file check.                               *)
(***************************************************************************)
\* longest list of expected data files
MaxFiles == 3

InitDbFixed ==
    /\ sessions = << >>
    /\ animals = [a \in Animals |-> 0]
    /\ trials = [a \in Animals |-> << >>]
    /\ meta = [s \in Sessions |-> [session_id |-> "A", animalid |-> "m1"]]
    /\ current_session_no = [s \in Sessions |-> 1]
    /\ lastCall = NoCall

InitFs ==
    /\ savePathExists \in BOOLEAN
    /\ files \in SUBSET Paths
    /\ dataPaths \in SeqsUpTo(Paths, MaxFiles)

InitFiles == InitDbFixed /\ InitFs /\ InitLogsFixed

NextFiles ==
    \/ \E s \in Sessions : IsSaved(s)
    \/ init_data_paths
    \/ \E r \in Paths : save_data(r)

SpecFiles == InitFiles /\ [][NextFiles]_vars

(***************************************************************************)
(* The specification of save_to_db run by two Sessions at once.            *)
(***************************************************************************)
InitRace == InitDb /\ InitFsFixed /\ InitLogsFixed

NextRace ==
    \/ \E s \in Sessions, db_dict \in Rows : SaveCheck(s, db_dict)
    \/ \E s \in Sessions : SaveWrite(s)

SpecRace == InitRace /\ [][NextRace]_vars

(***************************************************************************)
(* The specification of the log reading.                                   *)
(***************************************************************************)
InitReaders ==
    /\ readers \in [parseStimpyLog : [LogPaths -> BOOLEAN],
                     parseStimpyGithubLog : [LogPaths -> BOOLEAN],
                     list : BOOLEAN]
    /\ rcl = NoRcl
    /\ sm = NoMeta
    /\ rd = NoRd
    /\ saving = NoSaving

InitLogs == InitDbFixed /\ InitFsFixed /\ InitReaders

NextLogs ==
    \E stimlog_paths \in LogArgs, riglog_paths \in LogArgs :
        ReadCombineLogs(stimlog_paths, riglog_paths)

SpecLogs == InitLogs /\ [][NextLogs]_vars

(***************************************************************************)
(* The specification of read_data.                                         *)
(***************************************************************************)
InitData ==
    /\ InitDbFixed /\ InitFsFixed
    /\ readers \in [parseStimpyLog : [LogPaths -> BOOLEAN],
                     parseStimpyGithubLog : {[q \in LogPaths |-> b] : b \in BOOLEAN},
                     list : {FALSE}]
    /\ rcl = NoRcl
    /\ sm = NoMeta
    /\ saving = NoSaving
    /\ \E logversion \in {"stimpy", "pyvstim"}, runPaths \in SeqsUpTo(RunDirs, MaxRuns) :
           rd = [called |-> FALSE, logversion |-> logversion,
                 data_paths |-> DataPathsOf(runPaths), out |-> NoData]

NextData == ReadData

SpecData == InitData /\ [][NextData]_vars

(***************************************************************************)
(* The specification of the SessionMeta construction.                      *)
(***************************************************************************)
InitMeta == InitDbFixed /\ InitFsFixed /\ InitLogsFixed

\* one construction in a behaviour: a SessionMeta is built from its arguments
\* alone, so a second one would repeat the first
NextMeta ==
    \/ /\ sm.path = "none"
       /\ \E prot \in ProtFiles, skip_google \in BOOLEAN :
              ConstructFromProt(prot, skip_google)
    \/ /\ sm.path = "none"
       /\ \E init_dict \in InitDicts : ConstructFromDict(init_dict)
    \/ ConstructEmpty
    \/ GenerateSessionId

SpecMeta == InitMeta /\ [][NextMeta]_vars

(***************************************************************************)
(* Properties of save_to_db, overall_session_no and isSaved.               *)
(***************************************************************************)
\* every Session object of the model has the same meta.session_id
SameSessionId == \A s, u \in Sessions : meta[s].session_id = meta[u].session_id

\* the last step was a save_to_db
Saved == lastCall.op = "save_to_db"

\* the nSessions overall_session_no reads for an animal: 0 without a row
CounterOf(table, a) == IF table[a] = NoEntry THEN 0 ELSE table[a]

\* C1: after any sequence of save_to_db calls, with any payloads, all made by
\* Sessions of one session_id, the sessions table holds at most one row with
\* that session_id.
C1_AtMostOneRow ==
    SameSessionId => RowCount(meta["s1"].session_id, sessions) <= 1

\* C1 witness: several calls were made, some with payloads of another
\* sessionId, which filled the table, and the session_id has its one row.
C1_Witness ==
    /\ SameSessionId
    /\ Saved /\ lastCall.prev.op = "save_to_db"
    /\ Len(sessions) = MaxRows
    /\ RowCount(meta["s1"].session_id, sessions) = 1

\* C2 as stated: two consecutive save_to_db calls for one session_id with
\* two different payloads leave exactly one row with that id, and it carries
\* the second payload.
C2_TwoCallsOneRow ==
    [][ ( /\ lastCall.op = "save_to_db"
          /\ lastCall'.op = "save_to_db"
          /\ meta[lastCall.s].session_id = meta[lastCall'.s].session_id
          /\ lastCall.payload # lastCall'.payload )
        => LET sid == meta[lastCall'.s].session_id
           IN  /\ RowCount(sid, sessions') = 1
               /\ \A i \in 1..Len(sessions') :
                      sessions'[i].sessionId = sid => sessions'[i] = lastCall'.payload
      ]_vars

\* C2 amended: when both payloads carry the session_id as their sessionId and
\* the table held at most one row with that id before the first call, the two
\* calls leave exactly one row with that id, it carries the second payload,
\* and the second call took the update branch and added no row.
C2_TwoCallsOneRowKeyed ==
    [][ ( /\ lastCall.op = "save_to_db"
          /\ lastCall'.op = "save_to_db"
          /\ meta[lastCall.s].session_id = meta[lastCall'.s].session_id
          /\ lastCall.payload # lastCall'.payload
          /\ lastCall.payload.sessionId = meta[lastCall.s].session_id
          /\ lastCall'.payload.sessionId = meta[lastCall.s].session_id
          /\ lastCall.pre <= 1 )
        => LET sid == meta[lastCall'.s].session_id
           IN  /\ RowCount(sid, sessions') = 1
               /\ \A i \in 1..Len(sessions') :
                      sessions'[i].sessionId = sid => sessions'[i] = lastCall'.payload
               /\ lastCall'.branch = "update"
               /\ Len(sessions') = Len(sessions)
      ]_vars

\* C2 witness: the second of two calls for one session_id, both payloads
\* carrying the id, the first of which inserted the row, has run with another
\* payload.
C2_Witness ==
    /\ Saved /\ lastCall.prev.op = "save_to_db"
    /\ lastCall.prev.sid = meta[lastCall.s].session_id
    /\ lastCall.prev.payload.sessionId = lastCall.prev.sid
    /\ lastCall.payload.sessionId = lastCall.prev.sid
    /\ lastCall.payload # lastCall.prev.payload
    /\ lastCall.prev.pre = 0
    /\ lastCall.branch = "update"
    /\ RowCount(lastCall.prev.sid, sessions) = 1

\* C3: a save_to_db that finds no row for the session_id inserts the row and
\* leaves the owning animal's nSessions at its value before the call plus one.
C3_InsertIncrements ==
    [][ (lastCall'.op = "save_to_db" /\ lastCall'.branch = "insert")
        => LET a == meta[lastCall'.s].animalid
           IN  /\ Len(sessions') = Len(sessions) + 1
               /\ CounterOf(animals', a) = CounterOf(animals, a) + 1
      ]_vars

\* C4: the animals table changes only in the insert branch of save_to_db;
\* overall_session_no, get_latest_trial_count, isSaved and the update branch
\* leave it as it is, and the update branch adds no row to the sessions table.
C4_CounterFrame ==
    [][ /\ (animals' # animals
              => lastCall'.op = "save_to_db" /\ lastCall'.branch = "insert")
        /\ (lastCall'.op \in {"overall_session_no", "get_latest_trial_count", "isSaved"}
              => animals' = animals /\ sessions' = sessions)
        /\ (lastCall'.op = "save_to_db" /\ lastCall'.branch = "update"
              => animals' = animals /\ Len(sessions') = Len(sessions))
      ]_vars

\* C4 witness: the update branch has run, after an insert that counted the
\* session, for an animal that has a row in the animals table.
C4_Witness ==
    /\ Saved /\ lastCall.branch = "update"
    /\ lastCall.prev.op = "save_to_db" /\ lastCall.prev.pre = 0
    /\ animals[meta[lastCall.s].animalid] = current_session_no[lastCall.s]

\* C5: isSaved returns true exactly when the save path exists and every
\* expected data file exists, wherever in the list an absent file stands.
C5_IsSavedIffAll ==
    lastCall.op = "isSaved"
        => lastCall.ret = (savePathExists
                           /\ \A i \in 1..Len(dataPaths) : dataPaths[i] \in files)

\* C5 witness: the save path exists, the first and the last expected file
\* exist, one in between does not, and isSaved returned false.
C5_Witness ==
    /\ lastCall.op = "isSaved"
    /\ savePathExists
    /\ Len(dataPaths) = 3
    /\ dataPaths[1] \in files /\ dataPaths[3] \in files
    /\ dataPaths[2] \notin files
    /\ lastCall.ret = FALSE

(***************************************************************************)
(* Properties of read_combine_logs.                                        *)
(***************************************************************************)
\* both arguments of the last call are lists
BothLists == rcl.stimlog_paths.isList /\ rcl.riglog_paths.isList

\* the call raised and handed nothing back
NothingReturned ==
    /\ rcl.out.raised
    /\ ~rcl.out.returned
    /\ rcl.out.rawdata = << >>
    /\ rcl.out.comments = << >>

\* the reader whose result is used for a stimlog: the first that parses it
FirstReader(arg) ==
    IF parse_ok("parseStimpyLog", arg) THEN "parseStimpyLog" ELSE "parseStimpyGithubLog"

\* C6: read_combine_logs called with two lists of different lengths raises
\* before any log file is parsed and returns no (rawdata, comments), not
\* even a partial one.
C6_MismatchRaisesFirst ==
    (rcl.called /\ BothLists
       /\ Len(rcl.stimlog_paths.paths) # Len(rcl.riglog_paths.paths))
    => /\ NothingReturned
       /\ rcl.out.err = "AssertionError"
       /\ rcl.out.calls = << >>

\* C6 witness: two stimlogs and one riglog, every one of which the readers
\* would parse, and the call raised.
C6_Witness ==
    /\ rcl.called /\ BothLists
    /\ Len(rcl.stimlog_paths.paths) = 2 /\ Len(rcl.riglog_paths.paths) = 1
    /\ \A q \in LogPaths : readers.parseStimpyLog[q]
    /\ rcl.out.raised

\* C7: for every stimlog read, in the list branch and in the scalar branch,
\* the secondary reader is called exactly when the primary reader raised,
\* the stimlog data used is that of the first reader that parsed the file,
\* and when both readers raise the call raises and returns no data, none of
\* the runs parsed before included.
C7_FallbackOnlyOnFailure ==
    rcl.called =>
    LET calls == rcl.out.calls
        stim == rcl.stimlog_paths
    IN  /\ \A k \in 1..Len(calls) :
              (calls[k].fn = "parseStimpyLog" /\ calls[k].role = "stim")
              => ( ~calls[k].ok
                   <=> ( /\ k < Len(calls)
                         /\ calls[k + 1].fn = "parseStimpyGithubLog"
                         /\ calls[k + 1].arg = calls[k].arg ) )
        /\ \A k \in 1..Len(calls) :
              calls[k].fn = "parseStimpyGithubLog"
              => /\ k > 1
                 /\ calls[k - 1].fn = "parseStimpyLog" /\ calls[k - 1].role = "stim"
                 /\ calls[k - 1].arg = calls[k].arg
                 /\ ~calls[k - 1].ok
        /\ (rcl.out.returned /\ BothLists)
              => \A ch \in DOMAIN rcl.out.stim_data :
                     \A n \in 1..Len(rcl.out.stim_data[ch]) :
                        \E i \in 1..Len(stim.paths) :
                           rcl.out.stim_data[ch][n].v[1]
                               = FirstReader(Scalar(stim.paths[i]))
                           /\ rcl.out.stim_data[ch][n].v[2] = Scalar(stim.paths[i])
        /\ (rcl.out.returned /\ ~BothLists)
              => rcl.out.stim_data = parsed_data(FirstReader(stim), stim)
        /\ (\E k \in 1..Len(calls) :
                calls[k].fn = "parseStimpyGithubLog" /\ ~calls[k].ok)
              => NothingReturned

\* C7 witness: of two runs the first was parsed, its stimlog by the secondary
\* reader after the primary raised, and both readers raised on the second
\* run's stimlog.
C7_Witness ==
    /\ rcl.called /\ BothLists
    /\ Len(rcl.stimlog_paths.paths) = 2
    /\ Len(rcl.out.calls) = 5
    /\ ~rcl.out.calls[1].ok /\ rcl.out.calls[2].ok /\ rcl.out.calls[3].ok
    /\ ~rcl.out.calls[4].ok /\ ~rcl.out.calls[5].ok
    /\ rcl.out.raised

(***************************************************************************)
(* Properties of the SessionMeta construction.                             *)
(***************************************************************************)
\* generate_session_id has run on the object: as the last step of
\* init_from_prot, or called on an object built from a dictionary
GenRan ==
    \/ sm.path = "prot"
         /\ (sm.ready \/ sm.err[1] \in {"RuntimeError", "AttributeError"})
    \/ sm.path = "dict" /\ sm.gen # "no"

\* generate_session_id has run and set the id
GenOk ==
    \/ sm.path = "prot" /\ sm.ready
    \/ sm.path = "dict" /\ sm.gen = "ok"

\* generate_session_id has run and raised
GenRaised == GenRan /\ ~GenOk

\* the object as it was when generate_session_id was called
BeforeGen ==
    IF sm.path = "dict"
    THEN init_from_dict(sm.init_dict).obj
    ELSE [attrs |-> [k \in (DOMAIN sm.obj.attrs) \ {"session_id"} |-> sm.obj.attrs[k]],
          order |-> SelectSeq(sm.obj.order, LAMBDA k : k # "session_id")]

\* the animal id of the object has no digit, or animalid, baredate or time
\* is missing
NoDigitOrMissing ==
    \/ ~Has(BeforeGen, "animalid") \/ ~Has(BeforeGen, "baredate") \/ ~Has(BeforeGen, "time")
    \/ digits_of(BeforeGen.attrs.animalid) = << >>

\* the times of the model, as set_date formats them
TimeStrs == {strftime_HM(e) : e \in Epochs}

\* C8: generate_session_id raises a RuntimeError that names the session
\* directory, and sets no session_id, whenever the animal id has no digit or
\* animalid, baredate or time is missing; it never yields an id whose
\* animal-digits part is empty.
C8_FailsLoudly ==
    (GenRan /\ NoDigitOrMissing)
    => /\ GenRaised
       /\ sm.err[1] = "RuntimeError"
       /\ Has(BeforeGen, "session_dir") /\ sm.err[2] = BeforeGen.attrs.session_dir
       /\ sm.obj = BeforeGen

\* the id generate_session_id gives an object with this date, time and
\* animal id, and nothing else
MetaOf(baredate, time, animalid) ==
    SetAttr(SetAttr(SetAttr(NoAttrs, "animalid", animalid), "baredate", baredate),
            "time", time)
IdFor(baredate, time, animalid) ==
    generate_session_id(MetaOf(baredate, time, animalid)).obj.attrs.session_id

\* the dates of the model that strptime takes
ValidDates == {d \in Dates : strptime(d).ok}

BeforeId == {"level", "sf_values", "tf_values", "animalid", "user", "date", "time",
             "weight", "water_consumed"}

\* on the protocol-file path session_id is set, last, after the others
ProtIdLast ==
    (sm.path = "prot" /\ sm.ready)
    => /\ Has(sm.obj, "session_id")
       /\ sm.obj.order[Len(sm.obj.order)] = "session_id"
       /\ \A k \in BeforeId : \E i \in 1..(Len(sm.obj.order) - 1) : sm.obj.order[i] = k
       /\ \A i \in 1..(Len(sm.obj.order) - 1) : sm.obj.order[i] # "session_id"

ReadStimpy == rd.called /\ rd.logversion = "stimpy" /\ ~rd.out.raised

\* what read_combine_logs gives for run i of the session
RunOut(i) ==
    read_combine_logs(rd.data_paths.runPaths[i].stimlog, rd.data_paths.runPaths[i].riglog)

\* rawdata and comments are lists with one element per run directory, the
\* i-th the extrapolated table and the comments of run i
ListPerRun ==
    /\ rd.out.is_set
    /\ Len(rd.out.rawdata) = Len(rd.data_paths.runPaths)
    /\ Len(rd.out.comments) = Len(rd.data_paths.runPaths)
    /\ \A i \in 1..Len(rd.data_paths.runPaths) :
          /\ rd.out.rawdata[i] = extrapolate_time(RunOut(i).rawdata)
          /\ rd.out.comments[i] = RunOut(i).comments

\* C11: after read_data on the stimpy path, for every run count, rawdata
\* and comments are lists of the same length, the number of run
\* directories, the i-th element being the time-extrapolated combined
\* table (the comments) of the i-th run; one run gives one-element lists.
C11_ListShaped == ReadStimpy => ListPerRun

(***************************************************************************)
(* Properties of the SessionMeta derivation from a protocol file.          *)
(***************************************************************************)
\* the construction from a protocol file got as far as set_weight_and_water
LookupReached == sm.path = "prot" /\ Has(sm.obj, "weight")

\* C12: the weight/water lookup never propagates an exception out of the
\* construction: with the lookup unavailable, without a matching row, or
\* with a water value that cannot be coerced, the fields are left None and
\* the construction goes on; with skip_google both are None.
C12_LookupNeverRaises ==
    LookupReached =>
       /\ sm.ready
       /\ (sm.skip_google \/ sm.prot.gsheet \in {"unavailable", "norow"})
             => /\ sm.obj.attrs.weight = "None"
                /\ sm.obj.attrs.water_consumed = "None"
       /\ (~sm.skip_google /\ sm.prot.gsheet = "row_badwater")
             => sm.obj.attrs.water_consumed = "None"

(***************************************************************************)
(* Properties of get_latest_trial_count and overall_session_no.            *)
(***************************************************************************)
\* the last operation was this one
Ran(op) == lastCall.op = op
\* the animal of the Session object the last operation ran on
AnimalOfCall == meta[lastCall.s].animalid

\* C13: get_latest_trial_count returns the animal's last recorded
\* cumulative trial count, and 0 when the animal has no record or when a
\* step of the lookup fails, the database query included; it never raises.
C13_TrialCountNeverRaises ==
    Ran("get_latest_trial_count") =>
       /\ ~lastCall.raised
       /\ lastCall.ret
            = IF lastCall.branch = "query failed" \/ Len(trials[AnimalOfCall]) = 0
              THEN 0
              ELSE trials[AnimalOfCall][Len(trials[AnimalOfCall])]

\* C14: overall_session_no returns the animal's stored session counter plus
\* one when the animals table has an entry for the animal, and 1 when it
\* has none.
C14_CounterPlusOne ==
    Ran("overall_session_no") =>
        lastCall.ret = IF animals[AnimalOfCall] = NoEntry
                       THEN 1
                       ELSE animals[AnimalOfCall] + 1

\* C14 witness: the animal has an entry whose counter a save has raised to
\* 1, and overall_session_no returned 2.
C14_Witness ==
    /\ Ran("overall_session_no")
    /\ animals[AnimalOfCall] = 1
    /\ lastCall.ret = 2

(***************************************************************************)
(* Properties of the log isSaved writes.                                   *)
(***************************************************************************)
\* the log entry names the path r
Names(entry, r) == \E k \in 1..Len(entry) : entry[k] = r

\* C15: for every expected data file that is absent, isSaved (the save
\* path existing, so that the files are looked at) writes a log entry that
\* identifies that file by its path, so that the set of missing files can
\* be read from the log.
C15_LogNamesMissing ==
    (Ran("isSaved") /\ savePathExists) =>
        \A i \in 1..Len(dataPaths) :
            dataPaths[i] \notin files
               => \E j \in 1..Len(lastCall.log) : Names(lastCall.log[j], dataPaths[i])

(***************************************************************************)
(* Properties of the names and the level read off the path.                *)
(***************************************************************************)
\* the construction is from a protocol file in a session directory named
\* <date>_<animalid>_..._<user>
FormedDir == sm.path = "prot" /\ Len(sm.prot.dir) >= 3

\* C16: for every protocol-file path whose parent directory name has the
\* form <date>_<animalid>_..._<user>, the derived animalid is the second
\* underscore-delimited token of that name, user the last and baredate the
\* first, and a construction that returns has derived all three.
C16_TokensOfDir ==
    FormedDir =>
       /\ Has(sm.obj, "animalid") => sm.obj.attrs.animalid = sm.prot.dir[2]
       /\ Has(sm.obj, "user") => sm.obj.attrs.user = sm.prot.dir[Len(sm.prot.dir)]
       /\ Has(sm.obj, "baredate") => sm.obj.attrs.baredate = sm.prot.dir[1]
       /\ sm.ready => /\ Has(sm.obj, "animalid") /\ Has(sm.obj, "user")
                      /\ Has(sm.obj, "baredate")

\* C16 witness: 110111_K10_det_AB gave K10, AB and 110111.
C16_Witness ==
    /\ FormedDir /\ sm.ready
    /\ sm.prot.dir = << <<"1", "1", "0", "1", "1", "1">>, <<"K", "1", "0">>,
                        TaskToken, UserToken >>
    /\ sm.obj.attrs.animalid = <<"K", "1", "0">>
    /\ sm.obj.attrs.user = <<"A", "B">>
    /\ sm.obj.attrs.baredate = <<"1", "1", "0", "1", "1", "1">>

\* C17: level is determined by the protocol file's name alone: the
\* characters following the level token in the file name up to the first
\* "." or "_", and "exp" when the file name holds no level token, whatever
\* the names of the directories on the path.
C17_LevelOfFileName ==
    (sm.path = "prot" /\ sm.ready)
        => sm.obj.attrs.level = level_of(sm.prot.place.file)

\* C21: after init_from_prot has read the options, opto is True exactly when
\* the controller option contains "Opto", and False for every other
\* controller value, a numeric-looking one included; opto_mode is set exactly
\* when opto is True, to the integer of the optoMode option, or to 0 when
\* the option is absent.
C21_OptoOfController ==
    (sm.path = "prot" /\ sm.prot.parse # "raises")
        => /\ sm.err # <<"TypeError", "in">>
           /\ Has(sm.obj, "opto")
           /\ sm.obj.attrs.opto = (sm.prot.controller = "Opto")
           /\ Has(sm.obj, "opto_mode") <=> sm.obj.attrs.opto
           /\ sm.obj.attrs.opto
                => sm.obj.attrs.opto_mode
                     = (IF sm.prot.optoMode.has
                        THEN int_str(sm.prot.optoMode.v) ELSE 0)


\* the platforms set_date selects a creation epoch on
EpochPlatforms == {"darwin", "win32"}

\* C23: set_date selects a creation epoch on darwin, the birth time, and
\* on win32, the change time, and on no other platform.  On another
\* platform a construction from a protocol file never reaches Ready and sets
\* no time, weight, water_consumed or session_id; when it comes to the
\* date token and the token is a date, it raises for the unselected epoch
\* with baredate and date set.
C23_EpochOnTwoPlatforms ==
    sm.path = "prot"
        => /\ (Has(sm.obj, "time") /\ sm.prot.platform = "darwin")
                => sm.obj.attrs.time = strftime_HM(sm.prot.stat.st_birthtime)
           /\ (Has(sm.obj, "time") /\ sm.prot.platform = "win32")
                => sm.obj.attrs.time = strftime_HM(sm.prot.stat.st_ctime)
           /\ sm.prot.platform \notin EpochPlatforms
                => /\ ~sm.ready
                   /\ \A k \in {"time", "weight", "water_consumed", "session_id"} :
                         ~Has(sm.obj, k)
                   /\ (Has(sm.obj, "baredate") /\ strptime(sm.obj.attrs.baredate).ok)
                        => /\ Has(sm.obj, "date")
                           /\ sm.err = <<"UnboundLocalError", "create_epoch">>

\* C23 witness: a construction on another platform raised for the epoch
\* with baredate and date set.
C23_Witness ==
    /\ sm.path = "prot" /\ sm.prot.platform \notin EpochPlatforms
    /\ ~sm.ready
    /\ sm.err = <<"UnboundLocalError", "create_epoch">>
    /\ Has(sm.obj, "baredate") /\ Has(sm.obj, "date")
    /\ ~Has(sm.obj, "time") /\ ~Has(sm.obj, "session_id")

(***************************************************************************)
(* Properties of read_combine_logs on a list and a single path.            *)
(***************************************************************************)
\* exactly one argument of the last call is a list
OneList == rcl.called /\ (rcl.stimlog_paths.isList # rcl.riglog_paths.isList)
\* the argument of the last call a reader call was made for
ArgOf(role) == IF role = "stim" THEN rcl.stimlog_paths ELSE rcl.riglog_paths

\* C24: called with one list and one single path, read_combine_logs takes
\* the branch of the single files: it raises no length error of its own,
\* whatever the lengths, it hands each argument, the list included, to the
\* readers as it is, starting with parseStimpyLog on the stimlog argument,
\* and what it returns is what the readers gave, not stitched.
C24_OneListIsScalarBranch ==
    OneList
        => /\ rcl.out.err # "AssertionError"
           /\ Len(rcl.out.calls) >= 1
           /\ rcl.out.calls[1] = ReaderCall("parseStimpyLog", rcl.stimlog_paths, "stim")
           /\ \A i \in 1..Len(rcl.out.calls) :
                 rcl.out.calls[i].arg = ArgOf(rcl.out.calls[i].role)
           /\ rcl.out.returned
                => /\ rcl.out.stim_data
                        = parsed_data(FirstReader(rcl.stimlog_paths), rcl.stimlog_paths)
                   /\ rcl.out.rig_data
                        = parsed_data("parseStimpyLog", rcl.riglog_paths)

\* C24 witness: a call with a list of two stimlogs and one riglog path
\* returned what the readers made of them.
C24_Witness ==
    /\ OneList
    /\ rcl.stimlog_paths.isList /\ Len(rcl.stimlog_paths.paths) = 2
    /\ rcl.out.returned
    /\ Len(rcl.out.calls) = 2
    /\ rcl.out.calls[1].arg = rcl.stimlog_paths

(***************************************************************************)
(* Properties of save_to_db run by two Sessions at once.                   *)
(***************************************************************************)
\* the invocation of a Session writes the row of the Session's own id
OwnPayload(s) ==
    saving.inv[s].pc # "idle"
        => saving.inv[s].db_dict.sessionId = meta[s].session_id
\* both Sessions hold one session_id that had no row, both ran the exists
\* query before either wrote, and both have returned
BothCheckedFirst ==
    /\ meta["s1"].session_id = meta["s2"].session_id
    /\ saving.overlapped
    /\ \A s \in Sessions :
          saving.inv[s].pc = "done" /\ saving.inv[s].pre = 0 /\ OwnPayload(s)

\* C22: the exists query and the insert of save_to_db are not one step.
\* When two invocations for a session_id that has no row both run the query
\* before either writes, both take the insert branch: the session_id ends
\* with two rows and the animal's counter is written twice.  When the
\* invocations run one after the other, no session_id has two rows.
C22_CheckThenInsertRace ==
    /\ BothCheckedFirst
          => /\ \A s \in Sessions : saving.inv[s].branch = "insert"
             /\ RowCount(meta["s1"].session_id, sessions) = 2
             /\ saving.animal_writes = 2
    /\ (~saving.overlapped /\ \A s \in Sessions : OwnPayload(s))
          => \A sid \in SessionIds : RowCount(sid, sessions) <= 1

\* C22 witness: two interleaved invocations have left two rows of one
\* session_id.
C22_Witness ==
    /\ BothCheckedFirst
    /\ RowCount(meta["s1"].session_id, sessions) = 2
    /\ saving.animal_writes = 2

(***************************************************************************)
(* Properties of what read_combine_logs returns.                           *)
(***************************************************************************)
\* the last call took two lists and returned
StitchedRuns == rcl.called /\ BothLists /\ rcl.out.returned
\* the number of runs of the last call
RunCount == Len(rcl.stimlog_paths.paths)

\* the table the readers gave for run k of a kind ("stim" or "rig")
RunTable(kind, k) ==
    IF kind = "stim"
    THEN parsed_data(FirstReader(Scalar(rcl.stimlog_paths.paths[k])),
                     Scalar(rcl.stimlog_paths.paths[k]))
    ELSE parsed_data("parseStimpyLog", Scalar(rcl.riglog_paths.paths[k]))
\* the samples of a channel in run k, none when the run lacks the channel
RunSamples(kind, ch, k) ==
    IF ch \in DOMAIN RunTable(kind, k) THEN RunTable(kind, k)[ch] ELSE << >>
\* the duration of run k for the channel
RunDuration(kind, ch, k) ==
    IF Len(RunSamples(kind, ch, k)) = 0 THEN 0
    ELSE RunSamples(kind, ch, k)[Len(RunSamples(kind, ch, k))].t
\* the durations of runs 1..k summed, and their samples counted
RECURSIVE SumDurations(_, _, _)
SumDurations(kind, ch, k) ==
    IF k = 0 THEN 0 ELSE SumDurations(kind, ch, k - 1) + RunDuration(kind, ch, k)
RECURSIVE CountSamples(_, _, _)
CountSamples(kind, ch, k) ==
    IF k = 0 THEN 0 ELSE CountSamples(kind, ch, k - 1) + Len(RunSamples(kind, ch, k))

\* the stitched table of a kind, as it stands at the merge
Stitched(kind) == IF kind = "stim" THEN rcl.out.stim_data ELSE rcl.out.rig_data

\* the merged stream m of a channel holds the runs' samples in run order,
\* run k shifted by the durations of runs 1..k-1, and does not go back in time
StreamAsClaimed(kind, ch, m) ==
    /\ Len(m) = CountSamples(kind, ch, RunCount)
    /\ \A k \in 1..RunCount :
          \A n \in 1..Len(RunSamples(kind, ch, k)) :
             m[CountSamples(kind, ch, k - 1) + n]
                = [t |-> RunSamples(kind, ch, k)[n].t + SumDurations(kind, ch, k - 1),
                   v |-> RunSamples(kind, ch, k)[n].v]
    /\ \A a \in 1..Len(m) : \A b \in a..Len(m) : m[a].t <= m[b].t

C19_RiglogOverlay ==
    (rcl.called /\ rcl.out.returned) =>
       /\ DOMAIN rcl.out.rawdata = (DOMAIN rcl.out.stim_data) \cup (DOMAIN rcl.out.rig_data)
       /\ \A ch \in DOMAIN rcl.out.rig_data : rcl.out.rawdata[ch] = rcl.out.rig_data[ch]
       /\ \A ch \in (DOMAIN rcl.out.stim_data) \ (DOMAIN rcl.out.rig_data) :
             rcl.out.rawdata[ch] = rcl.out.stim_data[ch]

\* C19 witness: stimlog p1 (channels x, y) and riglog p2 (channels y, z):
\* y is in both with different samples, and the result has x, y and z.
C19_Witness ==
    /\ rcl.called /\ rcl.out.returned /\ ~BothLists
    /\ rcl.stimlog_paths = Scalar("p1") /\ rcl.riglog_paths = Scalar("p2")
    /\ rcl.out.stim_data["y"] # rcl.out.rig_data["y"]
    /\ DOMAIN rcl.out.rawdata = {"x", "y", "z"}

\* the comments the readers gave for runs k.. of a kind, in run order
RECURSIVE RunComments(_, _)
RunComments(kind, k) ==
    IF k > RunCount THEN << >>
    ELSE (IF kind = "stim"
          THEN parsed_comments(FirstReader(Scalar(rcl.stimlog_paths.paths[k])),
                               Scalar(rcl.stimlog_paths.paths[k]))
          ELSE parsed_comments("parseStimpyLog", Scalar(rcl.riglog_paths.paths[k])))
           \o RunComments(kind, k + 1)

\* C20: the comment list read_combine_logs returns is all stimlog comments
\* followed by all riglog comments; within a kind the comments stand in
\* run order and, within a run, in the order the reader gave them; none is
\* dropped or duplicated.
C20_CommentsInOrder ==
    (rcl.called /\ rcl.out.returned) =>
        rcl.out.comments
           = IF BothLists
             THEN RunComments("stim", 1) \o RunComments("rig", 1)
             ELSE parsed_comments(FirstReader(rcl.stimlog_paths), rcl.stimlog_paths)
                    \o parsed_comments("parseStimpyLog", rcl.riglog_paths)

\* C20 witness: two runs, stimlogs p1 and p2, riglogs p2 and p1: the result
\* holds the two comments of p1 and the one of p2 as stimlog comments, then
\* the one of p2 and the two of p1 as riglog comments.
C20_Witness ==
    /\ StitchedRuns
    /\ rcl.stimlog_paths.paths = <<"p1", "p2">>
    /\ rcl.riglog_paths.paths = <<"p2", "p1">>
    /\ Len(rcl.out.comments) = 6
    /\ rcl.out.comments[3][2] = Scalar("p2")
    /\ rcl.out.comments[4][2] = Scalar("p2")

====
